---- MODULE Spec2Model ----
(***************************************************************************)
(* The Netflix catalog synchronisation engine of justwatch_letterboxd:     *)
(* MovieCache (src/src/cache.py), CatalogManager                           *)
(* (src/src/catalog/manager.py) and NetflixScraper.scrape_catalog          *)
(* (src/src/scrapers/justwatch_netflix.py), MovieMatcher                   *)
(* (src/src/matcher.py) with the JustWatch and Letterboxd clients, and the *)
(* two entry points of CatalogScheduler (src/src/catalog/scheduler.py).    *)
(*                                                                         *)
(* Python values are represented as follows.                               *)
(*   str            a sequence of one-character strings                    *)
(*   Optional[T]    Nil (= << >>) for None, Some(v) (= <<v>>) otherwise    *)
(*   list           a sequence                                             *)
(*   float rating   an integer                                            *)
(*   datetime       an integer clock reading                               *)
(***************************************************************************)
EXTENDS Integers, Sequences, FiniteSets, TLC

VARIABLES
    store,          \* the rows of table movies (cache.py 38-53)
    next_id,        \* the AUTOINCREMENT counter of movies.id
    now,            \* the wall clock read by datetime.now()
    phase,          \* where sync_netflix_catalog stands (manager.py 66-127)
    current_titles, \* manager.py 84
    changes,        \* manager.py 89
    idx,            \* position of the loop of _process_new_titles in new_titles
    matched,        \* manager.py 183
    missing,        \* manager.py 184
    stats,          \* the value sync_netflix_catalog returns (manager.py 111-127)
    error,          \* the exception sync_netflix_catalog raises, Nil if none
    missing_log,    \* the number of lines of logs/missing_letterboxd.log
    logged,         \* the lines _log_missing_movies appended in this cycle
    cycles,         \* number of calls of sync_netflix_catalog so far
    ops,            \* number of direct MovieCache calls so far
    fetch_failed,   \* history: an except branch of scrape_catalog ran in this cycle
    store0,         \* history: the store when this cycle started
    lookups,        \* history: the entries get_movie_by_title was called for, in order
    outcomes,       \* history: how each lookup of this cycle ended
    answers,        \* history: what get_movie_by_title answered to each lookup
    pauses,         \* history: the seconds slept after each lookup of this cycle
    tasks,          \* the position and the locals of each running sync_netflix_catalog
    log0,           \* history: the lines the log file held when the manager was built
    own_handler,    \* whether the handler of logger catalog.missing writes to the file
                    \* of this manager
    plan,           \* the listing and the answers fixed for a run of repeated cycles,
                    \* Nil when every cycle draws its own
    last_ops,       \* history: the direct MovieCache calls, most recent last
    call            \* history: the latest MovieCache call with the table before it
                    \* and what it returned

vars == <<store, next_id, now, phase, current_titles, changes, idx, matched, missing,
          stats, error, missing_log, logged, cycles, ops, fetch_failed, store0, lookups,
          outcomes, answers, pauses, tasks, log0, own_handler, plan, last_ops, call>>

-----------------------------------------------------------------------------
(* Bounds of the model *)

\* longest catalog the provider serves in one cycle
MaxSnapshot == 2
\* tiles on one page of the provider's listing
PageSize == 1
\* calls of sync_netflix_catalog
MaxCycles == 2
\* direct calls of MovieCache operations
MaxOps == 3
\* largest clock reading
MaxClock == 3

-----------------------------------------------------------------------------
(* Python values *)

Nil == << >>
Some(v) == <<v>>

\* the truth value Python gives an Optional[str] or Optional[list]
Truthy(o) == o # Nil /\ o[1] # << >>

\* the truth value Python gives an Optional[int]
TruthyInt(o) == o # Nil /\ o[1] # 0

\* str.lower() on one character
LowerChar(c) ==
    CASE c = "A" -> "a" [] c = "B" -> "b" [] c = "C" -> "c" [] c = "D" -> "d"
      [] c = "E" -> "e" [] c = "F" -> "f" [] c = "G" -> "g" [] c = "H" -> "h"
      [] c = "I" -> "i" [] c = "J" -> "j" [] c = "K" -> "k" [] c = "L" -> "l"
      [] c = "M" -> "m" [] c = "N" -> "n" [] c = "O" -> "o" [] c = "P" -> "p"
      [] c = "Q" -> "q" [] c = "R" -> "r" [] c = "S" -> "s" [] c = "T" -> "t"
      [] c = "U" -> "u" [] c = "V" -> "v" [] c = "W" -> "w" [] c = "X" -> "x"
      [] c = "Y" -> "y" [] c = "Z" -> "z" [] OTHER -> c

\* str.lower()
Lower(s) == [i \in 1..Len(s) |-> LowerChar(s[i])]

IsSpace(c) == c \in {" ", "\t", "\n"}

RECURSIVE LStrip(_)
LStrip(s) == IF s # << >> /\ IsSpace(Head(s)) THEN LStrip(Tail(s)) ELSE s

RECURSIVE RStrip(_)
RStrip(s) ==
    IF s # << >> /\ IsSpace(s[Len(s)]) THEN RStrip(SubSeq(s, 1, Len(s) - 1)) ELSE s

\* str.strip()
Strip(s) == RStrip(LStrip(s))

\* str.startswith(p)
StartsWith(s, p) == Len(s) >= Len(p) /\ SubSeq(s, 1, Len(p)) = p

\* p in s
Contains(s, p) ==
    \E i \in 0..(Len(s) - Len(p)) : SubSeq(s, i + 1, i + Len(p)) = p

\* str.replace(p, ""), p not empty
RECURSIVE Remove(_, _)
Remove(s, p) ==
    IF s = << >> THEN << >>
    ELSE IF StartsWith(s, p) THEN Remove(SubSeq(s, Len(p) + 1, Len(s)), p)
    ELSE <<Head(s)>> \o Remove(Tail(s), p)

\* str.split(sep), sep one character
RECURSIVE Split(_, _)
Split(s, sep) ==
    IF \A i \in 1..Len(s) : s[i] # sep THEN <<s>>
    ELSE LET k == CHOOSE i \in 1..Len(s) :
                      s[i] = sep /\ \A j \in 1..(i - 1) : s[j] # sep
         IN  <<SubSeq(s, 1, k - 1)>> \o Split(SubSeq(s, k + 1, Len(s)), sep)

Digit(d) ==
    CASE d = 0 -> "0" [] d = 1 -> "1" [] d = 2 -> "2" [] d = 3 -> "3" [] d = 4 -> "4"
      [] d = 5 -> "5" [] d = 6 -> "6" [] d = 7 -> "7" [] d = 8 -> "8" [] d = 9 -> "9"

\* str(n) for an int n >= 0, as the f-string of _title_key formats year
RECURSIVE Str(_)
Str(n) == IF n < 10 THEN <<Digit(n)>> ELSE Str(n \div 10) \o <<Digit(n % 10)>>

RECURSIVE SeqOfSet(_)
\* the rows of a result set in rowid order
SeqOfSet(S) ==
    IF S = {} THEN << >>
    ELSE LET r == CHOOSE x \in S : \A y \in S : x.id <= y.id
         IN  <<r>> \o SeqOfSet(S \ {r})

Range(s) == {s[i] : i \in 1..Len(s)}

\* the characters of the string literals the code uses
NetflixName == <<"N", "e", "t", "f", "l", "i", "x">>
ImdbPrefix == <<"i", "m", "d", "b", ":">>
TitlePrefix == <<"t", "i", "t", "l", "e", ":">>

-----------------------------------------------------------------------------
(* MatchedMovie and the table movies *)

\* the fields of the dataclass; it defines no method
MatchedMovieAttrs ==
    {"title", "imdb_id", "year", "justwatch_id", "streaming_platforms",
     "justwatch_rating", "letterboxd_slug", "letterboxd_rating", "genres",
     "letterboxd_url"}

MatchedMovie(title, imdb_id, year, justwatch_id, streaming_platforms, justwatch_rating, letterboxd_slug, letterboxd_rating, genres, letterboxd_url) ==
    [title |-> title, imdb_id |-> imdb_id, year |-> year,
     justwatch_id |-> justwatch_id, streaming_platforms |-> streaming_platforms,
     justwatch_rating |-> justwatch_rating, letterboxd_slug |-> letterboxd_slug,
     letterboxd_rating |-> letterboxd_rating, genres |-> genres,
     letterboxd_url |-> letterboxd_url]

\* json.dumps of the characters of a string: quotes and backslashes escaped
RECURSIVE JsonEscape(_)
JsonEscape(s) ==
    IF s = << >> THEN << >>
    ELSE (IF Head(s) \in {"\"", "\\"} THEN <<"\\", Head(s)>> ELSE <<Head(s)>>)
         \o JsonEscape(Tail(s))

\* json.dumps of a list of strings: ["a", "b"]
RECURSIVE JsonItems(_)
JsonItems(l) ==
    IF l = << >> THEN << >>
    ELSE <<"\"">> \o JsonEscape(Head(l)) \o <<"\"">>
         \o (IF Tail(l) = << >> THEN << >> ELSE <<",", " ">>) \o JsonItems(Tail(l))

JsonDumps(l) == <<"[">> \o JsonItems(l) \o <<"]">>

\* the scanner of json.loads on the text of a list of strings: outside a
\* string a quote opens one and anything else is skipped; inside, a backslash
\* takes the next character as it is and a quote closes the string
RECURSIVE JsonScan(_, _, _, _)
JsonScan(s, in_string, cur, acc) ==
    IF s = << >> THEN acc
    ELSE IF ~in_string
    THEN JsonScan(Tail(s), Head(s) = "\"", << >>, acc)
    ELSE IF Head(s) = "\\" /\ Len(s) >= 2
    THEN JsonScan(Tail(Tail(s)), TRUE, Append(cur, s[2]), acc)
    ELSE IF Head(s) = "\""
    THEN JsonScan(Tail(s), FALSE, << >>, Append(acc, cur))
    ELSE JsonScan(Tail(s), TRUE, Append(cur, Head(s)), acc)

\* json.loads of the text json.dumps wrote for a list of strings
JsonLoads(text) == JsonScan(text, FALSE, << >>, << >>)

\* the columns MovieCache.set writes for movie at clock reading t, as row id
NewRow(id, movie, t) ==
    [id |-> id,
     imdb_id |-> movie.imdb_id,
     title |-> movie.title,
     year |-> movie.year,
     justwatch_id |-> movie.justwatch_id,
     streaming_platforms |->
         IF Truthy(movie.streaming_platforms)
         THEN Some(JsonDumps(movie.streaming_platforms[1])) ELSE Nil,
     justwatch_rating |-> movie.justwatch_rating,
     letterboxd_slug |-> movie.letterboxd_slug,
     letterboxd_rating |-> movie.letterboxd_rating,
     genres |-> IF Truthy(movie.genres) THEN Some(JsonDumps(movie.genres[1])) ELSE Nil,
     letterboxd_url |-> movie.letterboxd_url,
     cached_at |-> t,
     last_accessed |-> t]

\* the rows INSERT OR REPLACE removes: those that share the new row's
\* UNIQUE(title, year); a NULL year is distinct from every year
UniqueConflicts(st, movie) ==
    {r \in st : r.title = movie.title /\ r.year # Nil /\ r.year = movie.year}

\* MovieCache.set: the table after the statement
StoreSet(st, id, movie, t) ==
    (st \ UniqueConflicts(st, movie)) \cup {NewRow(id, movie, t)}

\* MovieCache.delete: the table after the statement
StoreDelete(st, key) ==
    IF StartsWith(key, ImdbPrefix)
    THEN LET imdb_id == Remove(key, ImdbPrefix)
         IN  {r \in st : ~(r.imdb_id # Nil /\ r.imdb_id[1] = imdb_id)}
    ELSE IF StartsWith(key, TitlePrefix)
    THEN LET title == Remove(key, TitlePrefix)
         IN  {r \in st : Lower(r.title) # Lower(title)}
    ELSE st

\* streaming_platforms LIKE '%platform%': NULL matches nothing, LIKE ignores case
PlatformLike(r, platform) ==
    /\ r.streaming_platforms # Nil
    /\ Contains(Lower(r.streaming_platforms[1]), Lower(platform))

\* MovieCache._row_to_movie
RowToMovie(r) ==
    MatchedMovie(r.title, r.imdb_id, r.year, r.justwatch_id,
                 IF Truthy(r.streaming_platforms)
                 THEN Some(JsonLoads(r.streaming_platforms[1])) ELSE Nil,
                 r.justwatch_rating, r.letterboxd_slug, r.letterboxd_rating,
                 IF Truthy(r.genres) THEN Some(JsonLoads(r.genres[1])) ELSE Nil,
                 r.letterboxd_url)

\* get_platform_catalog with the failure of the loop swallowed, the way
\* scrape_catalog swallows its own: the list built so far is returned
GetPlatformCatalog_swallow(st, platform) == [raised |-> FALSE, movies |-> << >>]

\* MovieCache.get_platform_catalog: for each selected row the loop calls
\* movie.to_dict(), which MatchedMovie does not define, so the first row raises
\* AttributeError; with no row selected the list is empty
GetPlatformCatalog(st, platform) ==
    LET rows == SeqOfSet({r \in st : PlatformLike(r, platform)})
    IN  IF rows # << >> /\ "to_dict" \notin MatchedMovieAttrs
        THEN [raised |-> TRUE, movies |-> << >>]
        ELSE [raised |-> FALSE,
              movies |-> [i \in 1..Len(rows) |-> RowToMovie(rows[i])]]

\* the rows WHERE imdb_id = ? selects
RowsOfImdb(st, imdb_id) == {r \in st : r.imdb_id # Nil /\ r.imdb_id[1] = imdb_id}

\* title LIKE '%title%': LIKE ignores case
TitleLike(r, title) == Contains(Lower(r.title), Lower(title))

\* datetime.now() - cached_at > timedelta(hours=max_age_hours), the clock
\* reading t
Expired(r, max_age_hours, t) == t - r.cached_at > max_age_hours

\* a get that runs its UPDATE before it looks at the age of the row
StoreGet_touch(st, imdb_id, max_age_hours, t) ==
    LET rows == SeqOfSet(RowsOfImdb(st, imdb_id))
        touched == {IF r \in RowsOfImdb(st, imdb_id)
                    THEN [r EXCEPT !.last_accessed = t] ELSE r : r \in st}
    IN  IF rows = << >> THEN [ret |-> Nil, store |-> st]
        ELSE IF Expired(rows[1], max_age_hours, t) THEN [ret |-> Nil, store |-> touched]
        ELSE [ret |-> Some(RowToMovie(rows[1])), store |-> touched]

\* a get whose UPDATE sets cached_at together with last_accessed
StoreGet_refresh(st, imdb_id, max_age_hours, t) ==
    LET rows == SeqOfSet(RowsOfImdb(st, imdb_id))
    IN  IF rows = << >> THEN [ret |-> Nil, store |-> st]
        ELSE IF Expired(rows[1], max_age_hours, t) THEN [ret |-> Nil, store |-> st]
        ELSE [ret |-> Some(RowToMovie(rows[1])),
              store |-> {IF r \in RowsOfImdb(st, imdb_id)
                         THEN [r EXCEPT !.last_accessed = t, !.cached_at = t]
                         ELSE r : r \in st}]

\* MovieCache.get: the value returned and the table afterwards; fetchone takes
\* the first selected row, the UPDATE runs WHERE imdb_id = ?
StoreGet(st, imdb_id, max_age_hours, t) ==
    LET rows == SeqOfSet(RowsOfImdb(st, imdb_id))
    IN  IF rows = << >> THEN [ret |-> Nil, store |-> st]
        ELSE IF Expired(rows[1], max_age_hours, t) THEN [ret |-> Nil, store |-> st]
        ELSE [ret |-> Some(RowToMovie(rows[1])),
              store |-> {IF r \in RowsOfImdb(st, imdb_id)
                         THEN [r EXCEPT !.last_accessed = t] ELSE r : r \in st}]

\* the rows ORDER BY cached_at DESC LIMIT 1 may deliver: the statement does not
\* order rows of equal cached_at
NewestByTitle(st, title) ==
    {r \in st : /\ TitleLike(r, title)
                /\ \A q \in st : TitleLike(q, title) => q.cached_at <= r.cached_at}

\* MovieCache.get_by_title when fetchone delivered row; the table is not written
StoreGetByTitle(row, max_age_hours, t) ==
    IF Expired(row, max_age_hours, t) THEN Nil ELSE Some(RowToMovie(row))

\* MovieCache.get_stats: COUNT(*), MIN(cached_at) and MAX(cached_at) of the
\* table, NULL for both on an empty table; the table is only read
StoreGetStats(st) ==
    [total_entries |-> Cardinality(st),
     oldest_entry |-> IF st = {} THEN Nil
                      ELSE Some(CHOOSE c \in {r.cached_at : r \in st} :
                                    \A r \in st : c <= r.cached_at),
     newest_entry |-> IF st = {} THEN Nil
                      ELSE Some(CHOOSE c \in {r.cached_at : r \in st} :
                                    \A r \in st : r.cached_at <= c)]

\* a clear_expired whose statement reads DELETE WHERE cached_at <= cutoff
StoreClearExpired_inclusive(st, max_age_hours, t) ==
    LET cutoff == t - max_age_hours
        gone == {r \in st : r.cached_at <= cutoff}
    IN  [deleted |-> Cardinality(gone), store |-> st \ gone]

\* MovieCache.clear_expired: DELETE WHERE cached_at < cutoff, rowcount returned
StoreClearExpired(st, max_age_hours, t) ==
    LET cutoff == t - max_age_hours
        gone == {r \in st : r.cached_at < cutoff}
    IN  [deleted |-> Cardinality(gone), store |-> st \ gone]

\* a set_many that masks the error of a set and goes on with the next movie
RECURSIVE StoreSetMany_mask(_, _, _, _, _)
StoreSetMany_mask(st, first_id, movies, failAt, t) ==
    IF movies = << >> THEN [store |-> st, next_id |-> first_id, raised |-> FALSE]
    ELSE IF failAt = 1 THEN StoreSetMany_mask(st, first_id, Tail(movies), 0, t)
    ELSE StoreSetMany_mask(StoreSet(st, first_id, Head(movies), t), first_id + 1,
                           Tail(movies), failAt - 1, t)

\* MovieCache.set_many: set() for each movie in list order, each committed on
\* its own; the sqlite3 error of the failAt-th set (0: none fails) leaves the
\* loop and the method
RECURSIVE StoreSetMany(_, _, _, _, _)
StoreSetMany(st, first_id, movies, failAt, t) ==
    IF movies = << >> THEN [store |-> st, next_id |-> first_id, raised |-> FALSE]
    ELSE IF failAt = 1 THEN [store |-> st, next_id |-> first_id, raised |-> TRUE]
    ELSE StoreSetMany(StoreSet(st, first_id, Head(movies), t), first_id + 1,
                      Tail(movies), failAt - 1, t)

-----------------------------------------------------------------------------
(* The provider's listing and the rating source: the inputs of a cycle *)

Dune == <<"D", "u", "n", "e">>
DuneUpper == <<"D", "U", "N", "E">>
Heat == <<"H", "e", "a", "t">>

\* a dict as _extract_movie_data returns it (justwatch_netflix.py 139-145)
Tile(title, year, justwatch_id) ==
    [title |-> title, year |-> year, imdb_id |-> Nil,
     justwatch_id |-> Some(justwatch_id),
     justwatch_url |-> Some(<<"/", "m", "/">> \o justwatch_id)]

\* a tile that links to its IMDb page (justwatch_netflix.py 128-134)
HeatTile == [Tile(Heat, Some(1995), <<"h", "1">>) EXCEPT !.imdb_id = Some(<<"t", "t", "2">>)]

\* a tile whose href has no /movie/ part, so that re.search finds no id
\* (justwatch_netflix.py 112-116)
BareTile ==
    [title |-> DuneUpper, year |-> Nil, imdb_id |-> Nil, justwatch_id |-> Nil,
     justwatch_url |-> Some(<<"/", "d">>)]

\* the tiles the listing may show: two films that share title and year, a
\* title without a year and without JustWatch id that differs from them in
\* case only, and another film whose tile carries an IMDb id
Tiles ==
    {Tile(Dune, Some(2021), <<"d", "1">>), Tile(Dune, Some(2021), <<"d", "2">>),
     HeatTile, BareTile}

RECURSIVE SeqsUpTo(_, _)
SeqsUpTo(S, n) ==
    IF n = 0 THEN {<< >>}
    ELSE SeqsUpTo(S, n - 1) \cup
         {Append(q, x) : q \in {q \in SeqsUpTo(S, n - 1) : Len(q) = n - 1}, x \in S}

\* the listings: up to MaxSnapshot tiles, no tile twice
Catalogs ==
    {c \in SeqsUpTo(Tiles, MaxSnapshot) : \A i, j \in 1..Len(c) : c[i] = c[j] => i = j}

\* what letterboxdpy's Movie object offers the manager
LBMovie(imdb_link, rating, url, genres) ==
    [imdb_link |-> imdb_link, rating |-> rating, url |-> url, genres |-> genres]

\* what get_movie_by_title may answer: None; a film with a full record; a film
\* with no IMDb link, rating or genres; a film whose imdb_link has no slash
Answers ==
    {Nil,
     Some(LBMovie(Some(<<"/", "t", "/", "t", "t", "1", "/">>), Some(4),
                  Some(<<"l", "/", "d">>), Some(<<[name |-> <<"S", "F">>]>>))),
     Some(LBMovie(Nil, Nil, Some(<<"l", "/", "d">>), Nil)),
     Some(LBMovie(Some(<<"t", "t", "1">>), Some(4), Some(<<"l", "/", "d">>), Nil))}

-----------------------------------------------------------------------------
(* NetflixScraper.scrape_catalog *)

\* the tiles of page p of the listing (pages count from 1)
PageTiles(catalog, p) ==
    SubSeq(catalog, (p - 1) * PageSize + 1,
           IF p * PageSize < Len(catalog) THEN p * PageSize ELSE Len(catalog))

\* whether page p carries a Next Page link
HasNextPage(catalog, p) == p * PageSize < Len(catalog)

\* the while loop from page p on, movies being the list so far; the request of
\* page errAt raises (errAt = 0: no request raises). Both except branches log
\* and break, so the loop always ends by returning the list it has
RECURSIVE ScrapeFrom(_, _, _, _)
ScrapeFrom(catalog, errAt, p, movies) ==
    IF p = errAt THEN [movies |-> movies, excepted |-> TRUE]
    ELSE LET movie_tiles == PageTiles(catalog, p)
         IN  IF movie_tiles = << >> THEN [movies |-> movies, excepted |-> FALSE]
             ELSE IF ~HasNextPage(catalog, p)
             THEN [movies |-> movies \o movie_tiles, excepted |-> FALSE]
             ELSE ScrapeFrom(catalog, errAt, p + 1, movies \o movie_tiles)

\* scrape_catalog: movies is what it returns; excepted records whether an
\* except branch ran and is not part of the return value
ScrapeCatalog(catalog, errAt) == ScrapeFrom(catalog, errAt, 1, << >>)

\* the pages scrape_catalog requests when none fails
PagesOf(catalog) ==
    IF Len(catalog) = 0 THEN 1 ELSE (Len(catalog) + PageSize - 1) \div PageSize

-----------------------------------------------------------------------------
(* CatalogManager *)

\* CatalogManager._title_key
TitleKey(movie) ==
    LET title == Lower(Strip(movie.title))
        year == movie.year
    IN  IF TruthyInt(year) THEN title \o <<"|">> \o Str(year[1]) ELSE title

\* CatalogManager._compare_catalogs, from the cached list on
CompareCatalogs(cur, cached_titles) ==
    LET current_set == {TitleKey(m) : m \in Range(cur)}
        cached_set == {TitleKey(m) : m \in Range(cached_titles)}
        new_keys == current_set \ cached_set
        removed_keys == cached_set \ current_set
        retained_keys == current_set \cap cached_set
    IN  [new |-> SelectSeq(cur, LAMBDA m : TitleKey(m) \in new_keys),
         removed |-> SelectSeq(cached_titles, LAMBDA m : TitleKey(m) \in removed_keys),
         retained |-> SelectSeq(cur, LAMBDA m : TitleKey(m) \in retained_keys)]

\* the MatchedMovie lines 195-204 of _process_new_titles build; parts is
\* imdb_link.split('/')
BuildMatched(movie, lb, parts) ==
    MatchedMovie(movie.title,
                 IF Truthy(lb.imdb_link) THEN Some(parts[Len(parts) - 1]) ELSE Nil,
                 movie.year, movie.justwatch_id, Some(<<NetflixName>>), Nil, Nil,
                 lb.rating,
                 IF Truthy(lb.genres)
                 THEN Some([i \in 1..Len(lb.genres[1]) |-> lb.genres[1][i].name])
                 ELSE Some(<< >>),
                 lb.url)

\* the loop body with an except branch that only logs
ProcessNewTitle_swallow(matched_movies, missing_movies, movie, letterboxd_movie) ==
    IF letterboxd_movie = Nil
    THEN [matched |-> matched_movies, missing |-> Append(missing_movies, movie),
          kind |-> "missing"]
    ELSE LET lb == letterboxd_movie[1]
             parts == IF Truthy(lb.imdb_link) THEN Split(lb.imdb_link[1], "/") ELSE << >>
         IN  IF Truthy(lb.imdb_link) /\ Len(parts) < 2
             THEN [matched |-> matched_movies, missing |-> missing_movies,
                   kind |-> "error"]
             ELSE [matched |-> Append(matched_movies, BuildMatched(movie, lb, parts)),
                   missing |-> missing_movies, kind |-> "matched"]

\* a loop body that puts a missing movie at the head of the list
ProcessNewTitle_prepend(matched_movies, missing_movies, movie, letterboxd_movie) ==
    LET r == ProcessNewTitle_swallow(matched_movies, << >>, movie, letterboxd_movie)
    IN  IF r.kind = "matched" THEN [r EXCEPT !.missing = missing_movies]
        ELSE [matched |-> matched_movies, missing |-> <<movie>> \o missing_movies,
              kind |-> IF r.kind = "error" THEN "error" ELSE "missing"]

\* the body of the loop of _process_new_titles for one movie, letterboxd_movie
\* being the answer of get_movie_by_title: the two lists afterwards, and in kind
\* the branch taken ("error": the except branch, here on the IndexError of
\* split('/')[-2] on a link with no slash)
ProcessNewTitle(matched_movies, missing_movies, movie, letterboxd_movie) ==
    IF letterboxd_movie = Nil
    THEN [matched |-> matched_movies, missing |-> Append(missing_movies, movie),
          kind |-> "missing"]
    ELSE LET lb == letterboxd_movie[1]
             parts == IF Truthy(lb.imdb_link) THEN Split(lb.imdb_link[1], "/") ELSE << >>
         IN  IF Truthy(lb.imdb_link) /\ Len(parts) < 2
             THEN [matched |-> matched_movies,
                   missing |-> Append(missing_movies, movie), kind |-> "error"]
             ELSE [matched |-> Append(matched_movies, BuildMatched(movie, lb, parts)),
                   missing |-> missing_movies, kind |-> "matched"]

\* the argument of asyncio.sleep in the loop (manager.py 210)
RateLimitDelay == 2

\* the seconds the loop body sleeps after the lookup: the sleep is the last
\* statement of the try block, which the except branch does not reach
SleepAfter(kind) == IF kind = "error" THEN 0 ELSE RateLimitDelay

\* a loop body that stores each MatchedMovie as soon as it is built
ResolveWrites_eager(kind, matched_movies) ==
    IF kind = "matched" THEN <<matched_movies[Len(matched_movies)]>> ELSE << >>

\* the movies the loop body hands to cache.set: none, the loop only appends to
\* its two lists
ResolveWrites(kind, matched_movies) == << >>

\* a loop that takes the same movie again after the except branch
NextIdx_retry(i, kind) == IF kind = "error" THEN i ELSE i + 1

\* for movie in new_titles: the position after an iteration that ended in kind
NextIdx(i, kind) == i + 1

\* CatalogManager._store_matched_movies: the table after the loop, the k-th
\* movie taking row id first_id + k - 1, every set reading the clock at t
RECURSIVE StoreMatchedMovies(_, _, _, _)
StoreMatchedMovies(st, first_id, matched_movies, t) ==
    IF matched_movies = << >> THEN st
    ELSE StoreMatchedMovies(StoreSet(st, first_id, Head(matched_movies), t),
                            first_id + 1, Tail(matched_movies), t)

\* CatalogManager._remove_deleted_titles: the table after the loop
RECURSIVE RemoveDeletedTitles(_, _)
RemoveDeletedTitles(st, removed_titles) ==
    IF removed_titles = << >> THEN st
    ELSE LET movie == Head(removed_titles)
             by_title == StoreDelete(st, TitlePrefix \o Lower(movie.title))
             by_imdb == IF Truthy(movie.imdb_id)
                        THEN StoreDelete(by_title, ImdbPrefix \o movie.imdb_id[1])
                        ELSE by_title
         IN  RemoveDeletedTitles(by_imdb, Tail(removed_titles))

\* the line _log_missing_movies writes for one movie
MissingLine(movie) ==
    [title |-> movie.title, year |-> movie.year, justwatch_id |-> movie.justwatch_id]

\* statistics that count the keys of the new titles, not the titles
SyncStats_keys(ch, matched_movies, missing_movies, cur) ==
    [new |-> Cardinality({TitleKey(m) : m \in Range(ch.new)}), removed |-> Len(ch.removed),
     retained |-> Len(ch.retained), matched |-> Len(matched_movies),
     missing |-> Len(missing_movies), total |-> Len(cur)]

\* the dict sync_netflix_catalog returns (without elapsed_seconds)
SyncStats(ch, matched_movies, missing_movies, cur) ==
    [new |-> Len(ch.new), removed |-> Len(ch.removed), retained |-> Len(ch.retained),
     matched |-> Len(matched_movies), missing |-> Len(missing_movies),
     total |-> Len(cur)]

NoChanges == [new |-> << >>, removed |-> << >>, retained |-> << >>]

\* the two callers of sync_netflix_catalog: _run_sync, fired by the cron
\* trigger, and run_sync_now
Callers == {"cron", "manual"}

\* a caller with no sync_netflix_catalog running
IdleTask ==
    [pc |-> "Idle", current_titles |-> << >>, new |-> << >>, removed |-> << >>, idx |-> 1,
     matched |-> << >>, missing |-> << >>, logged |-> 0, total |-> 0]

\* CatalogManager._log_missing_movies: the number of lines of the manager's
\* file after the loop. The handler of the logger catalog.missing appends one
\* line per movie to the file it was opened on; _setup_missing_logger opens it
\* on this manager's file only when the logger had no handler yet (own), and
\* otherwise the lines go to the file of the manager built first
LogMissingMovies(lines, missing_movies, own) ==
    IF own THEN lines + Len(missing_movies) ELSE lines

\* no MovieCache method has been called directly yet
NoCall == [op |-> "none", args |-> << >>, before |-> {}, ret |-> Nil, raised |-> FALSE, t |-> 0]

-----------------------------------------------------------------------------
(* One call of sync_netflix_catalog, a step per await *)

CycleReset ==
    /\ current_titles' = << >>
    /\ changes' = NoChanges
    /\ idx' = 1
    /\ matched' = << >>
    /\ missing' = << >>
    /\ stats' = Nil
    /\ error' = Nil
    /\ logged' = << >>
    /\ fetch_failed' = FALSE
    /\ lookups' = << >>
    /\ outcomes' = << >>
    /\ answers' = << >>
    /\ pauses' = << >>
    /\ UNCHANGED <<tasks, log0, own_handler>>

\* manager.py 79-85: the call starts and scrape_catalog returns
StartSyncOn(catalog, errAt) ==
    /\ phase = "Idle"
    /\ cycles < MaxCycles
    /\ LET r == ScrapeCatalog(catalog, errAt)
       IN  /\ current_titles' = r.movies
           /\ fetch_failed' = r.excepted
    /\ phase' = "Fetched"
    /\ cycles' = cycles + 1
    /\ now' = IF now < MaxClock THEN now + 1 ELSE now
    /\ store0' = store
    /\ changes' = NoChanges
    /\ idx' = 1
    /\ matched' = << >>
    /\ missing' = << >>
    /\ stats' = Nil
    /\ error' = Nil
    /\ logged' = << >>
    /\ lookups' = << >>
    /\ outcomes' = << >>
    /\ answers' = << >>
    /\ pauses' = << >>
    /\ UNCHANGED <<tasks, log0, own_handler, plan>>
    /\ UNCHANGED <<store, next_id, missing_log, ops, last_ops, call>>

\* a cycle on any listing, any page request of which may fail
StartSync ==
    /\ plan = Nil
    /\ \E catalog \in Catalogs : \E errAt \in 0..PagesOf(catalog) : StartSyncOn(catalog, errAt)

\* manager.py 87-89: _compare_catalogs; an exception of get_platform_catalog
\* leaves sync_netflix_catalog
Diff ==
    /\ phase = "Fetched"
    /\ LET r == GetPlatformCatalog(store, NetflixName)
       IN  IF r.raised
           THEN /\ phase' = "Failed"
                /\ error' = Some("AttributeError")
                /\ changes' = changes
           ELSE /\ phase' = "Resolving"
                /\ error' = error
                /\ changes' = CompareCatalogs(current_titles, r.movies)
    /\ UNCHANGED <<store, next_id, now, current_titles, idx, matched, missing, stats,
                   missing_log, logged, cycles, ops, fetch_failed, store0, lookups, outcomes,
                   answers, pauses, tasks, log0, own_handler, plan,
                   last_ops, call>>

\* manager.py 186-214: one iteration of the loop of _process_new_titles
ResolveOneWith(letterboxd_movie) ==
    /\ phase = "Resolving"
    /\ idx <= Len(changes.new)
    /\ LET movie == changes.new[idx]
           r == ProcessNewTitle(matched, missing, movie, letterboxd_movie)
       IN  /\ matched' = r.matched
           /\ missing' = r.missing
           /\ lookups' = Append(lookups, movie)
           /\ outcomes' = Append(outcomes, r.kind)
           /\ answers' = Append(answers, letterboxd_movie)
           /\ pauses' = Append(pauses, SleepAfter(r.kind))
           /\ UNCHANGED <<tasks, log0, own_handler, plan>>
           /\ idx' = NextIdx(idx, r.kind)
           /\ store' = StoreMatchedMovies(store, next_id,
                                          ResolveWrites(r.kind, r.matched), now)
           /\ next_id' = next_id + Len(ResolveWrites(r.kind, r.matched))
    /\ UNCHANGED <<now, phase, current_titles, changes, stats, error,
                   missing_log, logged, cycles, ops, fetch_failed, store0, last_ops, call>>

\* an iteration with any answer of Letterboxd
ResolveOne ==
    /\ plan = Nil
    /\ \E letterboxd_movie \in Answers : ResolveOneWith(letterboxd_movie)

\* manager.py 95-102: _store_matched_movies, then _log_missing_movies
Persist ==
    /\ phase = "Resolving"
    /\ idx > Len(changes.new)
    /\ store' = StoreMatchedMovies(store, next_id, matched, now)
    /\ next_id' = next_id + Len(matched)
    /\ missing_log' = LogMissingMovies(missing_log, missing, own_handler)
    /\ logged' = [i \in 1..Len(missing) |-> MissingLine(missing[i])]
    /\ phase' = "Evicting"
    /\ UNCHANGED <<now, current_titles, changes, idx, matched, missing, stats, error,
                   cycles, ops, fetch_failed, store0, lookups, outcomes, answers, pauses,
                   tasks, log0, own_handler, plan, last_ops, call>>

\* manager.py 104-127: _remove_deleted_titles when removed is not empty, then
\* the statistics are returned
Evict ==
    /\ phase = "Evicting"
    /\ store' = IF changes.removed # << >>
                THEN RemoveDeletedTitles(store, changes.removed) ELSE store
    /\ stats' = Some(SyncStats(changes, matched, missing, current_titles))
    /\ phase' = "Done"
    /\ UNCHANGED <<next_id, now, current_titles, changes, idx, matched, missing, error,
                   missing_log, logged, cycles, ops, fetch_failed, store0, lookups, outcomes,
                   answers, pauses, tasks, log0, own_handler, plan,
                   last_ops, call>>

\* the task running sync_netflix_catalog is cancelled while the loop of
\* _process_new_titles waits in asyncio.sleep or before its next iteration:
\* CancelledError is no Exception, so no except clause of the loop, of the
\* manager or of _run_sync takes it
Cancel ==
    /\ phase = "Resolving"
    /\ phase' = "Cancelled"
    /\ error' = Some("CancelledError")
    /\ UNCHANGED <<store, next_id, now, current_titles, changes, idx, matched, missing,
                   stats, missing_log, logged, cycles, ops, fetch_failed, store0, lookups,
                   outcomes, answers, pauses, tasks, log0, own_handler, plan, last_ops, call>>

\* the caller has the result (statistics or exception) of the call
Return ==
    /\ phase \in {"Done", "Failed", "Cancelled"}
    /\ phase' = "Idle"
    /\ UNCHANGED plan
    /\ CycleReset
    /\ store0' = {}
    /\ UNCHANGED <<store, next_id, now, missing_log, cycles, ops, last_ops, call>>

Init ==
    /\ store = {}
    /\ next_id = 1
    /\ now = 0
    /\ phase = "Idle"
    /\ current_titles = << >>
    /\ changes = NoChanges
    /\ idx = 1
    /\ matched = << >>
    /\ missing = << >>
    /\ stats = Nil
    /\ error = Nil
    /\ missing_log = 0
    /\ logged = << >>
    /\ cycles = 0
    /\ ops = 0
    /\ fetch_failed = FALSE
    /\ store0 = {}
    /\ lookups = << >>
    /\ outcomes = << >>
    /\ answers = << >>
    /\ pauses = << >>
    /\ tasks = [p \in Callers |-> IdleTask]
    /\ log0 = 0
    /\ own_handler = TRUE
    /\ plan = Nil
    /\ last_ops = << >>
    /\ call = NoCall

Next == StartSync \/ Diff \/ ResolveOne \/ Cancel \/ Persist \/ Evict \/ Return

Spec == Init /\ [][Next]_vars

-----------------------------------------------------------------------------
(* Direct calls of MovieCache, as its other callers and its tests make them *)

\* a MatchedMovie as test_cache.py builds them
CachedMovie(title, year, letterboxd_rating) ==
    MatchedMovie(title, Some(<<"t", "t", "1">>), year, Nil, Some(<<NetflixName>>), Nil,
                 Nil, Some(letterboxd_rating), Nil, Nil)

Movies ==
    {CachedMovie(Dune, Some(2021), 4), CachedMovie(Dune, Some(2021), 5),
     CachedMovie(Dune, Nil, 4), CachedMovie(Dune, Nil, 5),
     CachedMovie(Heat, Some(1995), 4)}

DeleteKeys ==
    {TitlePrefix \o Lower(Dune), ImdbPrefix \o <<"t", "t", "1">>, Lower(Dune)}

\* MovieCache.set(movie)
CacheSet ==
    /\ phase = "Idle"
    /\ ops < MaxOps
    /\ \E movie \in Movies :
          /\ store' = StoreSet(store, next_id, movie, now)
          /\ last_ops' = Append(last_ops, [op |-> "set", movie |-> movie, t |-> now])
    /\ next_id' = next_id + 1
    /\ ops' = ops + 1
    /\ UNCHANGED <<now, phase, current_titles, changes, idx, matched, missing, stats,
                   error, missing_log, logged, cycles, fetch_failed, store0, lookups,
                   outcomes, answers, pauses, tasks, log0, own_handler, plan, call>>

\* MovieCache.delete(key)
CacheDelete ==
    /\ phase = "Idle"
    /\ ops < MaxOps
    /\ \E key \in DeleteKeys :
          /\ store' = StoreDelete(store, key)
          /\ last_ops' = Append(last_ops, [op |-> "delete", key |-> key, t |-> now])
    /\ ops' = ops + 1
    /\ UNCHANGED <<next_id, now, phase, current_titles, changes, idx, matched, missing,
                   stats, error, missing_log, logged, cycles, fetch_failed, store0,
                   lookups, outcomes, answers, pauses, tasks, log0, own_handler, plan, call>>

\* time passes between two calls
Tick ==
    /\ phase = "Idle"
    /\ now < MaxClock
    /\ now' = now + 1
    /\ UNCHANGED <<store, next_id, phase, current_titles, changes, idx, matched,
                   missing, stats, error, missing_log, logged, cycles, ops,
                   fetch_failed, store0, lookups, outcomes, answers, pauses, tasks, log0,
                   own_handler, plan, last_ops, call>>

NextStore == CacheSet \/ CacheDelete \/ Tick

SpecStore == Init /\ [][NextStore]_vars

-----------------------------------------------------------------------------
(* Every MovieCache method, called in any order on any table *)

\* direct calls in a run of SpecCache
MaxCalls == 2
\* largest max_age_hours a call passes
MaxAge == 1

NetflixKids == <<"N", "e", "t", "f", "l", "i", "x", " ", "K", "i", "d", "s">>
SubX == <<"S", "u", "b", " ", "X">>
Tt1 == <<"t", "t", "1">>
Tt2 == <<"t", "t", "2">>
Tt9 == <<"t", "t", "9">>

\* a MatchedMovie with the fields the cache methods look at
Film(title, year, imdb_id, streaming_platforms) ==
    MatchedMovie(title, imdb_id, year, Nil, streaming_platforms, Nil, Nil, Nil, Nil, Nil)

\* a film on Netflix
DuneFilm == Film(Dune, Some(2021), Some(Tt1), Some(<<NetflixName>>))
\* another record of the same title and year
DuneRemake == Film(Dune, Some(2021), Some(Tt2), Some(<<NetflixName>>))
\* the same title in capitals, same year, on Netflix Kids only
DuneKids == Film(DuneUpper, Some(2021), Some(Tt2), Some(<<NetflixKids>>))
\* the first film again under no year
DuneNoYear == Film(Dune, Nil, Some(Tt1), Nil)
\* a partial match: no IMDb id, no platform
SubFilm == Film(SubX, Some(1995), Nil, Nil)

CacheMovies == {DuneFilm, DuneRemake, DuneKids, DuneNoYear, SubFilm}

\* the lists handed to set_many
Batches ==
    {<< >>, <<DuneFilm, DuneRemake>>, <<DuneFilm, DuneNoYear>>,
     <<DuneNoYear, DuneNoYear>>, <<DuneKids, SubFilm>>}

ImdbIds == {Tt1, Tt9}

LookupTitles == {<<"u", "n", "e">>, Heat}

\* keys as _remove_deleted_titles builds them for Dune and for a film called
\* "Subtitle: X", an IMDb key, a key with no prefix
CacheKeys ==
    {TitlePrefix \o Lower(Dune),
     TitlePrefix \o <<"s", "u", "b">> \o TitlePrefix \o <<" ", "x">>,
     ImdbPrefix \o Tt1, Lower(Dune)}

MaxAges == 0..MaxAge

\* the record of a call
Called(op, args, ret, raised) ==
    [op |-> op, args |-> args, before |-> store, ret |-> ret, raised |-> raised, t |-> now]

\* what a direct call leaves alone
CallFrame ==
    /\ ops < MaxCalls
    /\ phase = "Idle"
    /\ ops' = ops + 1
    /\ UNCHANGED <<now, phase, current_titles, changes, idx, matched, missing, stats,
                   error, missing_log, logged, cycles, fetch_failed, store0, lookups,
                   outcomes, answers, pauses, tasks, log0, own_handler, plan, last_ops>>

\* MovieCache.set(movie)
CallSet ==
    /\ CallFrame
    /\ \E movie \in CacheMovies :
          /\ store' = StoreSet(store, next_id, movie, now)
          /\ call' = Called("set", <<movie>>, Nil, FALSE)
    /\ next_id' = next_id + 1

\* a film whose two lists are empty, and a film whose genres carry a quote, a
\* backslash and a comma
EmptyListsFilm ==
    MatchedMovie(Heat, Some(Tt9), Some(1995), Nil, Some(<< >>), Nil, Nil, Some(4), Some(<< >>), Nil)
QuotedFilm ==
    MatchedMovie(Heat, Some(Tt9), Nil, Nil, Some(<<NetflixName, NetflixKids>>), Nil, Nil, Nil, Some(<<<<"a", "\"", "b">>, <<"c", ",", " ", "\\">>>>), Nil)

\* the films with an IMDb id that test_set_and_get, test_json_serialization
\* and test_partial_data store and read back
RoundTripMovies == {DuneFilm, DuneNoYear, EmptyListsFilm, QuotedFilm}

\* cache.set(movie) followed at once by cache.get(movie.imdb_id), the max age
\* left at its default
CallSetThenGet ==
    /\ CallFrame
    /\ \E movie \in RoundTripMovies :
          LET r == StoreGet(StoreSet(store, next_id, movie, now), movie.imdb_id[1],
                            MaxAge, now)
          IN  /\ store' = r.store
              /\ call' = Called("set_get", <<movie>>, r.ret, FALSE)
    /\ next_id' = next_id + 1

\* MovieCache.set_many(movies)
CallSetMany ==
    /\ CallFrame
    /\ \E movies \in Batches : \E failAt \in 0..Len(movies) :
          LET r == StoreSetMany(store, next_id, movies, failAt, now)
          IN  /\ store' = r.store
              /\ next_id' = r.next_id
              /\ call' = Called("set_many", <<movies, failAt>>, Nil, r.raised)

\* MovieCache.get(imdb_id, max_age_hours)
CallGet ==
    /\ CallFrame
    /\ \E imdb_id \in ImdbIds : \E max_age_hours \in MaxAges :
          LET r == StoreGet(store, imdb_id, max_age_hours, now)
          IN  /\ store' = r.store
              /\ call' = Called("get", <<imdb_id, max_age_hours>>, r.ret, FALSE)
    /\ UNCHANGED next_id

\* MovieCache.get_by_title(title, max_age_hours)
CallGetByTitle ==
    /\ CallFrame
    /\ \E title \in LookupTitles : \E max_age_hours \in MaxAges :
          \/ /\ NewestByTitle(store, title) = {}
             /\ call' = Called("get_by_title", <<title, max_age_hours>>, Nil, FALSE)
          \/ \E row \in NewestByTitle(store, title) :
                call' = Called("get_by_title", <<title, max_age_hours>>,
                               StoreGetByTitle(row, max_age_hours, now), FALSE)
    /\ UNCHANGED <<store, next_id>>

\* MovieCache.clear_expired(max_age_hours)
CallClearExpired ==
    /\ CallFrame
    /\ \E max_age_hours \in MaxAges :
          LET r == StoreClearExpired(store, max_age_hours, now)
          IN  /\ store' = r.store
              /\ call' = Called("clear_expired", <<max_age_hours>>, r.deleted, FALSE)
    /\ UNCHANGED next_id

\* MovieCache.delete(key)
CallDelete ==
    /\ CallFrame
    /\ \E key \in CacheKeys :
          /\ store' = StoreDelete(store, key)
          /\ call' = Called("delete", <<key>>, Nil, FALSE)
    /\ UNCHANGED next_id

\* MovieCache.get_platform_catalog(platform)
CallGetPlatformCatalog ==
    /\ CallFrame
    /\ \E platform \in {NetflixName, NetflixKids} :
          LET r == GetPlatformCatalog(store, platform)
          IN  call' = Called("get_platform_catalog", <<platform>>, r.movies, r.raised)
    /\ UNCHANGED <<store, next_id>>

\* MovieCache.get_stats()
CallGetStats ==
    /\ CallFrame
    /\ call' = Called("get_stats", << >>, StoreGetStats(store), FALSE)
    /\ UNCHANGED <<store, next_id>>

NextCache ==
    \/ CallSet \/ CallSetMany \/ CallGet \/ CallGetByTitle \/ CallClearExpired
    \/ CallDelete \/ CallGetPlatformCatalog \/ CallSetThenGet \/ CallGetStats \/ Tick

SpecCache == Init /\ [][NextCache]_vars

-----------------------------------------------------------------------------
(* Vocabulary of the properties *)

\* the rows get_platform_catalog("Netflix") selects from a table
NetflixRows(st) == {r \in st : PlatformLike(r, NetflixName)}

\* the comparison keys of the previous snapshot: the provider's rows at the
\* start of the cycle
PreviousKeys == {TitleKey(r) : r \in NetflixRows(store0)}

\* the comparison keys of the fetched snapshot
CurrentKeys == {TitleKey(m) : m \in Range(current_titles)}

KeysOf(movies) == {TitleKey(m) : m \in Range(movies)}

\* _compare_catalogs has been called in this cycle
DiffCalled == phase \in {"Resolving", "Evicting", "Done", "Failed"}

\* the call of sync_netflix_catalog is over
CycleOver == phase \in {"Done", "Failed"}

\* row r is what set() writes for movie m
Carries(r, m) == \E t \in 0..MaxClock : r = NewRow(r.id, m, t)

\* [lookups[i] : outcomes[i] in kinds], in order
RECURSIVE LookupsOfKind(_, _, _)
LookupsOfKind(ls, os, kinds) ==
    IF ls = << >> THEN << >>
    ELSE (IF Head(os) \in kinds THEN <<Head(ls)>> ELSE << >>)
         \o LookupsOfKind(Tail(ls), Tail(os), kinds)

-----------------------------------------------------------------------------
(* C1 *)

\* C1: when a request of scrape_catalog fails (an except branch runs, on any
\* page), the call of sync_netflix_catalog does not go on to Done: it returns
\* no statistics and the store stays as it was when the cycle started.
C1_FetchFailureIsFatal ==
    fetch_failed => (phase # "Done" /\ stats = Nil /\ store = store0)

-----------------------------------------------------------------------------
(* C2 *)

\* C2: at Done every entity of matched has a row under its (title, year) that
\* carries the entity's field values.
C2_MatchedRowsPresent ==
    phase = "Done" =>
        \A i \in 1..Len(matched) :
            \E r \in store : /\ r.title = matched[i].title
                             /\ r.year = matched[i].year
                             /\ Carries(r, matched[i])

-----------------------------------------------------------------------------
(* C3 *)

-----------------------------------------------------------------------------
(* C4 *)

-----------------------------------------------------------------------------
(* C5 *)

\* C5: the rating source is asked once for each entry of new, in order (the
\* lookups so far are a prefix of new and, once resolving is over, all of new),
\* and never for an entry whose key is in the previous snapshot, as the keys
\* of retained and removed entries are.
C5_LookupsExactlyNew ==
    /\ Len(lookups) <= Len(changes.new)
    /\ lookups = SubSeq(changes.new, 1, Len(lookups))
    /\ phase \in {"Evicting", "Done"} => lookups = changes.new
    /\ \A i \in 1..Len(lookups) : TitleKey(lookups[i]) \notin PreviousKeys

\* a completed cycle that resolved two entries with the same key
C5_Witness ==
    /\ phase = "Done"
    /\ Len(lookups) >= 2
    /\ TitleKey(lookups[1]) = TitleKey(lookups[2])

-----------------------------------------------------------------------------
(* C6 *)

\* C6: once _compare_catalogs has been called it has returned lists such that
\* every key of current is a key of exactly one of new and retained, every key
\* of previous is a key of exactly one of removed and retained, and no key is
\* both in new and in removed.
C6_PartitionComplete ==
    DiffCalled =>
        /\ \A k \in CurrentKeys :
              (k \in KeysOf(changes.new)) # (k \in KeysOf(changes.retained))
        /\ \A k \in PreviousKeys :
              (k \in KeysOf(changes.removed)) # (k \in KeysOf(changes.retained))
        /\ KeysOf(changes.new) \cap KeysOf(changes.removed) = {}

-----------------------------------------------------------------------------
(* C7 *)

\* C7: once _compare_catalogs has been called with a snapshot that holds
\* exactly the (title, year) records of the previous snapshot, it has returned
\* new = [], removed = [] and retained = the snapshot.
C7_DiffIdempotent ==
    (/\ DiffCalled
     /\ {<<m.title, m.year>> : m \in Range(current_titles)}
          = {<<r.title, r.year>> : r \in NetflixRows(store0)})
    => /\ changes.new = << >>
       /\ changes.removed = << >>
       /\ changes.retained = current_titles

-----------------------------------------------------------------------------
(* C8 *)

\* C8: an entry whose processing raised is in missing once per lookup and not
\* in matched (missing is exactly the lookups that were not matched, in order,
\* matched has one entity per matched lookup), the lookups go on after it to
\* the end of new, and the call does not fail: it persists, evicts and returns
\* the statistics.
C8_ResolveErrorIsolated ==
    /\ missing = LookupsOfKind(lookups, outcomes, {"missing", "error"})
    /\ Len(matched) = Len(LookupsOfKind(lookups, outcomes, {"matched"}))
    /\ Len(matched) + Len(missing) = Len(lookups)
    /\ phase = "Failed" => lookups = << >>
    /\ phase = "Done" =>
          /\ Len(lookups) = Len(changes.new)
          /\ stats # Nil
          /\ stats[1].missing = Len(missing)
          /\ \A i \in 1..Len(matched) : \E r \in store : r.title = matched[i].title
    /\ (phase \in {"Resolving", "Evicting"} /\ "error" \in Range(outcomes)) =>
          ENABLED (ResolveOne \/ Persist \/ Evict)

\* a completed cycle in which the processing of an entry raised and a later
\* entry was matched and stored
C8_Witness ==
    /\ phase = "Done"
    /\ \E i \in 1..Len(outcomes) : \E j \in 1..Len(outcomes) :
          i < j /\ outcomes[i] = "error" /\ outcomes[j] = "matched"
    /\ store # {}

-----------------------------------------------------------------------------
(* C9 *)

\* C9: a cycle whose fetch succeeded (no request failed) does not end in
\* failure, whatever the store held when it started.
C9_FetchedCycleCompletes ==
    phase = "Failed" => fetch_failed

-----------------------------------------------------------------------------
(* C10 *)

\* C10: after set(E) directly followed by set(E') with the same title and the
\* same year (a year or None), the store holds exactly one row with that title
\* and year, it carries the fields of E', and its cached_at and last_accessed
\* are the clock reading of the second set.
C10_UpsertOverwrites ==
    LET n == Len(last_ops)
    IN  (/\ n >= 2
         /\ last_ops[n - 1].op = "set"
         /\ last_ops[n].op = "set"
         /\ last_ops[n - 1].movie.title = last_ops[n].movie.title
         /\ last_ops[n - 1].movie.year = last_ops[n].movie.year)
        => LET e == last_ops[n].movie
               rows == {r \in store : r.title = e.title /\ r.year = e.year}
           IN  /\ Cardinality(rows) = 1
               /\ \A r \in rows : r = NewRow(r.id, e, last_ops[n].t)

-----------------------------------------------------------------------------
(* MovieMatcher (src/src/matcher.py) with the two clients it calls *)

\* the characters the names below are made of, in code point order
Ascii ==
    <<" ", "-", "/", "0", "1", "2", "3", "4", "5", "6", "7", "8", "9", ":",
      "A", "B", "C", "D", "E", "F", "G", "H", "I", "J", "K", "L", "M", "N", "O", "P",
      "Q", "R", "S", "T", "U", "V", "W", "X", "Y", "Z",
      "a", "b", "c", "d", "e", "f", "g", "h", "i", "j", "k", "l", "m", "n", "o", "p",
      "q", "r", "s", "t", "u", "v", "w", "x", "y", "z">>

Ord(c) == CHOOSE i \in 1..Len(Ascii) : Ascii[i] = c

\* a < b for two str
RECURSIVE StrLess(_, _)
StrLess(a, b) ==
    IF b = << >> THEN FALSE
    ELSE IF a = << >> THEN TRUE
    ELSE IF Head(a) = Head(b) THEN StrLess(Tail(a), Tail(b))
    ELSE Ord(Head(a)) < Ord(Head(b))

\* sorted(list(S)) for a set of str
RECURSIVE Sorted(_)
Sorted(S) ==
    IF S = {} THEN << >>
    ELSE LET m == CHOOSE x \in S : \A y \in S \ {x} : StrLess(x, y)
         IN  <<m>> \o Sorted(S \ {m})

IsDigit(c) == c \in {"0", "1", "2", "3", "4", "5", "6", "7", "8", "9"}

\* the longest prefix of s made of digits
RECURSIVE Digits(_)
Digits(s) ==
    IF s # << >> /\ IsDigit(Head(s)) THEN <<Head(s)>> \o Digits(Tail(s)) ELSE << >>

\* re.search(r'(tt\d+)', s): group 1 of the first match, Nil without a match
RECURSIVE SearchImdbId(_)
SearchImdbId(s) ==
    IF Len(s) < 3 THEN Nil
    ELSE IF s[1] = "t" /\ s[2] = "t" /\ IsDigit(s[3])
    THEN Some(<<"t", "t">> \o Digits(SubSeq(s, 3, Len(s))))
    ELSE SearchImdbId(Tail(s))

\* JustWatchClient.extract_imdb_id
JWExtractImdbId(movie) == IF Truthy(movie.imdb_id) THEN movie.imdb_id ELSE Nil

\* JustWatchClient.get_streaming_platforms
GetStreamingPlatforms(movie) ==
    IF movie.offers = << >> THEN << >>
    ELSE Sorted({movie.offers[i].package_name :
                    i \in {j \in 1..Len(movie.offers) :
                              movie.offers[j].monetization_type = "FLATRATE"}})

\* LetterboxdClient.extract_imdb_id of a Movie: without a link, or with a link
\* that has no '/title/', the function ends without a return statement
LBExtractImdbId(lb) ==
    IF Truthy(lb.imdb_link) /\ Contains(lb.imdb_link[1], <<"/", "t", "i", "t", "l", "e", "/">>)
    THEN SearchImdbId(lb.imdb_link[1])
    ELSE Nil

\* LetterboxdClient.get_genres
GetGenres(lb) ==
    IF lb.genres = Nil THEN << >>
    ELSE [i \in 1..Len(lb.genres[1]) |-> lb.genres[1][i].name]

\* MovieMatcher._create_partial_match
CreatePartialMatch(justwatch_movie, imdb_id) ==
    MatchedMovie(justwatch_movie.title, Some(imdb_id), justwatch_movie.year,
                 Some(justwatch_movie.entry_id),
                 Some(GetStreamingPlatforms(justwatch_movie)), justwatch_movie.rating,
                 Nil, Nil, Nil, Nil)

\* MovieMatcher._create_matched_movie; url.split('/')[-2] raises IndexError on
\* a url without a slash
CreateMatchedMovie(justwatch_movie, lb, imdb_id) ==
    LET parts == IF Truthy(lb.url) THEN Split(lb.url[1], "/") ELSE << >>
    IN  IF Truthy(lb.url) /\ Len(parts) < 2
        THEN [raised |-> TRUE, ret |-> Nil]
        ELSE [raised |-> FALSE,
              ret |-> Some(MatchedMovie(
                  justwatch_movie.title, Some(imdb_id), justwatch_movie.year,
                  Some(justwatch_movie.entry_id),
                  Some(GetStreamingPlatforms(justwatch_movie)), justwatch_movie.rating,
                  IF Truthy(lb.url) THEN Some(parts[Len(parts) - 1]) ELSE Nil,
                  lb.rating, Some(GetGenres(lb)), lb.url))]

\* MovieMatcher.match_by_imdb_id, letterboxd_movie being what get_movie(slug)
\* or get_movie_by_title(title) answered
MatchByImdbId(justwatch_movie, letterboxd_slug, letterboxd_movie) ==
    LET imdb_id == JWExtractImdbId(justwatch_movie)
    IN  IF imdb_id = Nil THEN [raised |-> FALSE, ret |-> Nil]
        ELSE IF letterboxd_movie = Nil
        THEN [raised |-> FALSE, ret |-> Some(CreatePartialMatch(justwatch_movie, imdb_id[1]))]
        ELSE IF LBExtractImdbId(letterboxd_movie[1]) # imdb_id
        THEN [raised |-> FALSE, ret |-> Some(CreatePartialMatch(justwatch_movie, imdb_id[1]))]
        ELSE CreateMatchedMovie(justwatch_movie, letterboxd_movie[1], imdb_id[1])

\* a MediaEntry of simplejustwatchapi, the attributes the matcher reads
MediaEntry(title, year, imdb_id, offers) ==
    [title |-> title, year |-> year, entry_id |-> <<"t", "m", "1">>, imdb_id |-> imdb_id,
     offers |-> offers, rating |-> Nil]

Offer(package_name, monetization_type) ==
    [package_name |-> package_name, monetization_type |-> monetization_type]

Hulu == <<"H", "u", "l", "u">>

\* entries with and without a year, an IMDb id and offers
MediaEntries ==
    {MediaEntry(Dune, year, imdb_id, offers) :
        year \in {Nil, Some(2021)},
        imdb_id \in {Nil, Some(<<"t", "t", "1">>)},
        offers \in {<< >>, <<Offer(NetflixName, "FLATRATE"), Offer(Hulu, "FLATRATE"),
                              Offer(NetflixName, "RENT")>>}}

\* what the Letterboxd client may answer: None; the film with the IMDb id
\* tt1; a film with the id tt2; a film with no IMDb link; a film whose url has
\* no slash
MatcherAnswers ==
    {Nil,
     Some(LBMovie(Some(<<"/", "t", "i", "t", "l", "e", "/", "t", "t", "1", "/">>), Some(4),
                  Some(<<"f", "/", "d", "/">>), Some(<<[name |-> <<"S", "F">>]>>))),
     Some(LBMovie(Some(<<"/", "t", "i", "t", "l", "e", "/", "t", "t", "2", "/">>), Some(5),
                  Some(<<"f", "/", "e", "/">>), Some(<<[name |-> <<"S", "F">>]>>))),
     Some(LBMovie(Nil, Some(3), Some(<<"f", "/", "d", "/">>), Nil)),
     Some(LBMovie(Some(<<"/", "t", "i", "t", "l", "e", "/", "t", "t", "1", "/">>), Some(4),
                  Some(<<"d">>), Nil))}

\* what letterboxdpy's Movie(slug) does: it builds one of the films above, or
\* raises because the page does not exist, because the request failed, or
\* because the page could not be parsed
MovieOutcomes ==
    {[exc |-> Nil, movie |-> a] : a \in MatcherAnswers \ {Nil}}
    \cup {[exc |-> Some(e), movie |-> Nil] : e \in {"not_found", "transport", "parsing"}}

\* a get_movie that lets a failed request or a parsing error leave it
GetMovie_propagate(outcome) ==
    [raised |-> outcome.exc \in {Some("transport"), Some("parsing")},
     ret |-> IF outcome.exc # Nil THEN Nil ELSE outcome.movie]

\* LetterboxdClient.get_movie: `except Exception` turns whatever Movie(slug)
\* raises into None
GetMovie(outcome) ==
    [raised |-> FALSE, ret |-> IF outcome.exc # Nil THEN Nil ELSE outcome.movie]

\* match_by_imdb_id with the client call in it: get_movie is reached only when
\* the entry has an IMDb id, and nothing in match_by_imdb_id catches
MatchWithLookup(justwatch_movie, letterboxd_slug, outcome) ==
    LET g == GetMovie(outcome)
    IN  IF JWExtractImdbId(justwatch_movie) # Nil /\ g.raised
        THEN [raised |-> TRUE, ret |-> Nil]
        ELSE MatchByImdbId(justwatch_movie, letterboxd_slug, g.ret)

\* what a call of the matcher leaves alone
MatchFrame ==
    /\ phase = "Idle"
    /\ UNCHANGED <<store, next_id, now, phase, current_titles, changes, idx, matched,
                   missing, stats, error, missing_log, logged, cycles, ops, fetch_failed,
                   store0, lookups, outcomes, answers, pauses, tasks, log0, own_handler, plan, last_ops>>

\* MovieMatcher.match_by_imdb_id(justwatch_movie, letterboxd_slug)
CallMatchByImdbId ==
    /\ MatchFrame
    /\ \E justwatch_movie \in MediaEntries :
       \E letterboxd_slug \in {Nil, Some(Lower(Dune))} :
       \E outcome \in MovieOutcomes :
          LET r == MatchWithLookup(justwatch_movie, letterboxd_slug, outcome)
          IN  call' = Called("match_by_imdb_id",
                             <<justwatch_movie, letterboxd_slug, GetMovie(outcome).ret,
                               outcome>>,
                             r.ret, r.raised)

\* MovieMatcher.match_by_title(title): the first result of the JustWatch
\* search, if any, goes to match_by_imdb_id
CallMatchByTitle ==
    /\ MatchFrame
    /\ \E justwatch_results \in {<< >>} \cup {<<m>> : m \in MediaEntries} :
       \E outcome \in MovieOutcomes :
          LET r == IF justwatch_results = << >> THEN [raised |-> FALSE, ret |-> Nil]
                   ELSE MatchWithLookup(justwatch_results[1], Nil, outcome)
          IN  call' = Called("match_by_title",
                             <<justwatch_results, GetMovie(outcome).ret, outcome>>,
                             r.ret, r.raised)

NextMatch == CallMatchByImdbId \/ CallMatchByTitle

SpecMatch == Init /\ [][NextMatch]_vars

-----------------------------------------------------------------------------
(* LetterboxdClient._title_to_slug *)

MaxTitleLen == 4

\* str.upper() on one character
UpperChar(c) ==
    IF \E u \in Range(Ascii) : u # c /\ LowerChar(u) = c
    THEN CHOOSE u \in Range(Ascii) : u # c /\ LowerChar(u) = c
    ELSE c

\* str.upper()
Upper(s) == [i \in 1..Len(s) |-> UpperChar(s[i])]

\* c.isalnum()
IsAlnum(c) == c \in Range(Ascii) \ {" ", "-", "/", ":"}

\* str.replace(p, r), p not empty: the occurrences of p from the left, none
\* overlapping another
RECURSIVE Replace(_, _, _)
Replace(s, p, r) ==
    IF s = << >> THEN << >>
    ELSE IF StartsWith(s, p) THEN r \o Replace(SubSeq(s, Len(p) + 1, Len(s)), p, r)
    ELSE <<Head(s)>> \o Replace(Tail(s), p, r)

\* while '--' in slug: slug = slug.replace('--', '-')
RECURSIVE CollapseHyphens(_)
CollapseHyphens(s) ==
    IF Contains(s, <<"-", "-">>) THEN CollapseHyphens(Replace(s, <<"-", "-">>, <<"-">>))
    ELSE s

\* str.strip(c), c one character
RECURSIVE StripChar(_, _)
StripChar(s, c) ==
    IF s # << >> /\ Head(s) = c THEN StripChar(Tail(s), c)
    ELSE IF s # << >> /\ s[Len(s)] = c THEN StripChar(SubSeq(s, 1, Len(s) - 1), c)
    ELSE s

\* a conversion without the loop on '--'
TitleToSlug_nocollapse(title) ==
    StripChar(SelectSeq(Replace(Strip(Lower(title)), <<" ">>, <<"-">>),
                        LAMBDA c : IsAlnum(c) \/ c = "-"), "-")

\* LetterboxdClient._title_to_slug
TitleToSlug(title) ==
    LET lowered == Strip(Lower(title))
        hyphened == Replace(lowered, <<" ">>, <<"-">>)
        kept == SelectSeq(hyphened, LAMBDA c : IsAlnum(c) \/ c = "-")
    IN  StripChar(CollapseHyphens(kept), "-")

\* the characters of the titles tried: a capital, a small letter, a digit, a
\* space, a hyphen, a colon, a tab
SlugChars == {"A", "b", "1", " ", "-", ":", "\t"}

Titles == SeqsUpTo(SlugChars, MaxTitleLen)

\* client._title_to_slug(title), once: the method is static and keeps nothing
CallTitleToSlug ==
    /\ MatchFrame
    /\ call = NoCall
    /\ \E title \in Titles :
          call' = Called("_title_to_slug", <<title>>, TitleToSlug(title), FALSE)

NextSlug == CallTitleToSlug

SpecSlug == Init /\ [][NextSlug]_vars

-----------------------------------------------------------------------------
(* CatalogManager._title_key on its own *)

MaxKeyLen == 3

\* the characters of the titles: a letter in both cases, a blank, the separator
\* of the key and a digit
KeyChars == {"A", "a", " ", "|", "1"}

\* the years a dict may carry: none, and what int() makes of '0000' and '0001'
KeyYears == {Nil, Some(0), Some(1)}

\* the dicts _title_key is given: title and year are all it reads
KeyMovies == {[title |-> t, year |-> y] : t \in SeqsUpTo(KeyChars, MaxKeyLen), y \in KeyYears}

\* manager._title_key(movie), once: the method reads its argument only
CallTitleKey ==
    /\ MatchFrame
    /\ call = NoCall
    /\ \E movie \in KeyMovies :
          call' = Called("_title_key", <<movie>>, TitleKey(movie), FALSE)

NextKey == CallTitleKey

SpecKey == Init /\ [][NextKey]_vars

-----------------------------------------------------------------------------
(* CatalogScheduler: _run_sync and run_sync_now on one event loop *)

MaxOldLines == 1

\* the listings and the answers of Letterboxd tried here; neither answer makes
\* the loop body raise, so every lookup is followed by its sleep
SchedCatalogs == {<<Tile(Dune, Some(2021), <<"d", "1">>)>>, <<HeatTile, BareTile>>}
SchedAnswers ==
    {a \in Answers :
        a = Nil \/ (a[1].imdb_link # Nil /\ Len(Split(a[1].imdb_link[1], "/")) >= 2)}

\* sync_netflix_catalog from the point where the event loop resumes it to the
\* point where it next gives the loop away. With a new title left it makes the
\* lookup (a blocking call) and waits in asyncio.sleep; with none left it runs
\* _store_matched_movies, _log_missing_movies and _remove_deleted_titles, none
\* of which awaits anything that suspends, and returns
RunToSuspension(task, st, first_id, lines, letterboxd_movie, t) ==
    IF task.idx <= Len(task.new)
    THEN LET r == ProcessNewTitle(task.matched, task.missing, task.new[task.idx],
                                  letterboxd_movie)
         IN  [task |-> [task EXCEPT !.pc = "Resolving", !.matched = r.matched,
                                    !.missing = r.missing, !.idx = @ + 1],
              store |-> st, next_id |-> first_id, lines |-> lines]
    ELSE LET stored == StoreMatchedMovies(st, first_id, task.matched, t)
         IN  [task |-> [task EXCEPT !.pc = "Done", !.logged = Len(task.missing),
                                    !.total = @ + Len(task.missing)],
              store |-> IF task.removed # << >>
                        THEN RemoveDeletedTitles(stored, task.removed) ELSE stored,
              next_id |-> first_id + Len(task.matched),
              lines |-> IF task.missing # << >>
                        THEN LogMissingMovies(lines, task.missing, own_handler) ELSE lines]

\* what a step of a caller leaves alone
SchedFrame ==
    /\ phase = "Idle"
    /\ UNCHANGED <<now, phase, current_titles, changes, idx, matched, missing, stats,
                   error, logged, ops, fetch_failed, store0, lookups, outcomes, answers,
                   pauses, last_ops, log0, own_handler, plan>>

\* a caller enters sync_netflix_catalog, which runs up to the first request of
\* scrape_catalog. run_sync_now tests nothing; of _run_sync the scheduler keeps
\* one instance at a time (max_instances of a job is 1 unless set)
TaskStart(p) ==
    /\ SchedFrame
    /\ tasks[p].pc = "Idle"
    /\ cycles < MaxCycles
    /\ cycles' = cycles + 1
    /\ tasks' = [tasks EXCEPT ![p].pc = "Fetching"]
    /\ UNCHANGED <<store, next_id, missing_log, call>>

\* scrape_catalog returns; _compare_catalogs follows at once, then the loop of
\* _process_new_titles up to its first sleep, or the rest of the cycle
TaskDiff(p) ==
    /\ SchedFrame
    /\ tasks[p].pc = "Fetching"
    /\ \E catalog \in SchedCatalogs : \E letterboxd_movie \in SchedAnswers :
          LET cached == GetPlatformCatalog(store, NetflixName)
              ch == CompareCatalogs(ScrapeCatalog(catalog, 0).movies, cached.movies)
              task == [tasks[p] EXCEPT !.current_titles = ScrapeCatalog(catalog, 0).movies,
                                       !.new = ch.new, !.removed = ch.removed]
              r == RunToSuspension(task, store, next_id, missing_log, letterboxd_movie, now)
          IN  IF cached.raised
              THEN /\ tasks' = [tasks EXCEPT ![p].pc = "Failed"]
                   /\ UNCHANGED <<store, next_id, missing_log>>
              ELSE /\ tasks' = [tasks EXCEPT ![p] = r.task]
                   /\ store' = r.store
                   /\ next_id' = r.next_id
                   /\ missing_log' = r.lines
    /\ UNCHANGED <<cycles, call>>

\* the sleep of a caller ends
TaskWake(p) ==
    /\ SchedFrame
    /\ tasks[p].pc = "Resolving"
    /\ \E letterboxd_movie \in SchedAnswers :
          LET r == RunToSuspension(tasks[p], store, next_id, missing_log,
                                   letterboxd_movie, now)
          IN  /\ tasks' = [tasks EXCEPT ![p] = r.task]
              /\ store' = r.store
              /\ next_id' = r.next_id
              /\ missing_log' = r.lines
    /\ UNCHANGED <<cycles, call>>

\* the caller has the statistics or the exception; _run_sync only logs either
TaskReturn(p) ==
    /\ SchedFrame
    /\ tasks[p].pc \in {"Done", "Failed"}
    /\ tasks' = [tasks EXCEPT ![p] = [IdleTask EXCEPT !.total = tasks[p].total]]
    /\ UNCHANGED <<store, next_id, missing_log, cycles, call>>

\* the lines the cycles of this manager have logged so far
Appended == tasks["cron"].total + tasks["manual"].total

\* CatalogManager.get_sync_status(): missing_movies is the number of lines
\* get_missing_movies reads from the log file (recorded with it: the lines this
\* manager had logged by then)
CallGetSyncStatus ==
    /\ SchedFrame
    /\ call' = Called("get_sync_status", <<Appended>>, missing_log, FALSE)
    /\ UNCHANGED <<store, next_id, missing_log, cycles, tasks>>

\* the manager is built on a log directory whose file may hold the lines of
\* an earlier run, in a process where another manager may have been built
\* before it
InitSched ==
    /\ store = {}
    /\ next_id = 1
    /\ now = 0
    /\ phase = "Idle"
    /\ current_titles = << >>
    /\ changes = NoChanges
    /\ idx = 1
    /\ matched = << >>
    /\ missing = << >>
    /\ stats = Nil
    /\ error = Nil
    /\ logged = << >>
    /\ cycles = 0
    /\ ops = 0
    /\ fetch_failed = FALSE
    /\ store0 = {}
    /\ lookups = << >>
    /\ outcomes = << >>
    /\ answers = << >>
    /\ pauses = << >>
    /\ last_ops = << >>
    /\ call = NoCall
    /\ tasks = [p \in Callers |-> IdleTask]
    /\ log0 \in 0..MaxOldLines
    /\ own_handler \in BOOLEAN
    /\ plan = Nil
    /\ missing_log = log0

NextSched ==
    \/ \E p \in Callers : TaskStart(p) \/ TaskDiff(p) \/ TaskWake(p) \/ TaskReturn(p)
    \/ CallGetSyncStatus

SpecSched == InitSched /\ [][NextSched]_vars

-----------------------------------------------------------------------------
(* Cycles run back to back on one listing, Letterboxd answering the same *)

\* the slugs get_movie_by_title asks Letterboxd for
Slugs == {TitleToSlug(t.title) : t \in Tiles}

\* a listing that every scrape returns whole, and for every slug the answer
\* Letterboxd gives each time it is asked
Plans == {[catalog |-> c, answer |-> a] : c \in Catalogs, a \in [Slugs -> Answers]}

\* sync_netflix_catalog starts and scrape_catalog returns the planned listing
StartSyncPlanned ==
    /\ plan # Nil
    /\ StartSyncOn(plan[1].catalog, 0)

\* an iteration of the loop, get_movie_by_title(title) answering what the plan
\* holds for the slug of the title
ResolvePlanned ==
    /\ plan # Nil
    /\ phase = "Resolving"
    /\ idx <= Len(changes.new)
    /\ ResolveOneWith(plan[1].answer[TitleToSlug(changes.new[idx].title)])

InitRepeat ==
    /\ store = {}
    /\ next_id = 1
    /\ now = 0
    /\ phase = "Idle"
    /\ current_titles = << >>
    /\ changes = NoChanges
    /\ idx = 1
    /\ matched = << >>
    /\ missing = << >>
    /\ stats = Nil
    /\ error = Nil
    /\ missing_log = 0
    /\ logged = << >>
    /\ cycles = 0
    /\ ops = 0
    /\ fetch_failed = FALSE
    /\ store0 = {}
    /\ lookups = << >>
    /\ outcomes = << >>
    /\ answers = << >>
    /\ pauses = << >>
    /\ tasks = [p \in Callers |-> IdleTask]
    /\ log0 = 0
    /\ own_handler = TRUE
    /\ plan \in {Some(p) : p \in Plans}
    /\ last_ops = << >>
    /\ call = NoCall

NextRepeat == StartSyncPlanned \/ Diff \/ ResolvePlanned \/ Persist \/ Evict \/ Return

SpecRepeat == InitRepeat /\ [][NextRepeat]_vars

-----------------------------------------------------------------------------
(* Vocabulary of the properties of MovieCache *)

\* trim + lowercase of a title
NormalizeTitle(title) == Lower(Strip(title))

\* the latest direct call was op
CalledOp(op) == call.op = op /\ phase = "Idle"

\* the row fetchone delivered to the latest get
RowOfGet == SeqOfSet(RowsOfImdb(call.before, call.args[1]))[1]

-----------------------------------------------------------------------------
(* C11 *)

\* C11: the table never holds two rows whose titles are equal after trim +
\* lowercase and whose years are equal.
C11_OneRowPerNormalizedKey ==
    \A r \in store : \A q \in store :
        (NormalizeTitle(r.title) = NormalizeTitle(q.title) /\ r.year = q.year) => r = q

-----------------------------------------------------------------------------
(* C12 *)

\* C12: get(id, max_age_hours=0) on a table that holds a row of that id returns
\* None, whatever time has passed since the row was set, none included.
C12_ZeroMaxAgeMisses ==
    (/\ CalledOp("get")
     /\ call.args[2] = 0
     /\ RowsOfImdb(call.before, call.args[1]) # {})
    => call.ret = Nil

-----------------------------------------------------------------------------
(* C13 *)

\* C13: get finding no row of the id, or delivering a row older than the max
\* age, and get_by_title finding no row of the title, or only rows older than
\* the max age, return None and raise nothing; and a get or get_by_title that
\* returned None left the table as it was, last_accessed included.
C13_FailedLookupIsSilent ==
    /\ CalledOp("get") =>
          /\ ~call.raised
          /\ (\/ RowsOfImdb(call.before, call.args[1]) = {}
              \/ call.t - RowOfGet.cached_at > call.args[2]) => call.ret = Nil
          /\ call.ret = Nil => store = call.before
    /\ CalledOp("get_by_title") =>
          /\ ~call.raised
          /\ (\A r \in call.before :
                  TitleLike(r, call.args[1]) => call.t - r.cached_at > call.args[2])
              => call.ret = Nil
          /\ call.ret = Nil => store = call.before

\* a get that found a row of the id older than the max age and returned None
C13_Witness ==
    /\ CalledOp("get")
    /\ RowsOfImdb(call.before, call.args[1]) # {}
    /\ call.t - RowOfGet.cached_at > call.args[2]
    /\ call.ret = Nil

-----------------------------------------------------------------------------
(* C14 *)

\* C14: after a get or get_by_title that returned a movie, the row it was read
\* from has last_accessed equal to the clock reading of the call.
C14_ReadTouchesRow ==
    ((CalledOp("get") \/ CalledOp("get_by_title")) /\ call.ret # Nil)
    => \E r \in call.before :
          /\ RowToMovie(r) = call.ret[1]
          /\ \E q \in store : q.id = r.id /\ q.last_accessed = call.t

-----------------------------------------------------------------------------
(* C15 *)

\* C15: clear_expired(max_age) removes exactly the rows whose age exceeds
\* max_age, leaves the others as they were and returns how many it removed;
\* and clear_expired(0) removes every row, those just set included.
C15_SweepRemovesExpired ==
    CalledOp("clear_expired") =>
        /\ store = {r \in call.before : ~(call.t - r.cached_at > call.args[1])}
        /\ call.ret = Cardinality(call.before \ store)
        /\ call.args[1] = 0 => store = {}

-----------------------------------------------------------------------------
(* C16 *)

\* C16: get_platform_catalog(p) returns the movies of exactly the rows whose
\* streaming_platforms list has p as an element.
C16_ListingIsExact ==
    CalledOp("get_platform_catalog") =>
        /\ ~call.raised
        /\ Range(call.ret) =
              {RowToMovie(r) : r \in {q \in call.before :
                  /\ q.streaming_platforms # Nil
                  /\ call.args[1] \in Range(JsonLoads(q.streaming_platforms[1]))}}

-----------------------------------------------------------------------------
(* C17 *)

\* C17: delete("imdb:" + id) removes only rows of that IMDb id,
\* delete("title:" + t) only rows whose normalized title is t, any other key
\* removes nothing; rows that stay are unchanged and nothing is raised.
C17_DeleteOnlyIdentity ==
    CalledOp("delete") =>
        LET key == call.args[1]
            gone == call.before \ store
        IN  /\ ~call.raised
            /\ store \subseteq call.before
            /\ \A r \in gone :
                  \/ /\ StartsWith(key, ImdbPrefix)
                     /\ r.imdb_id = Some(SubSeq(key, Len(ImdbPrefix) + 1, Len(key)))
                  \/ /\ StartsWith(key, TitlePrefix)
                     /\ NormalizeTitle(r.title) = SubSeq(key, Len(TitlePrefix) + 1, Len(key))

-----------------------------------------------------------------------------
(* C18 *)

\* the movies of the latest set_many whose set was executed
StoredBySetMany ==
    IF call.args[2] = 0 THEN call.args[1] ELSE SubSeq(call.args[1], 1, call.args[2] - 1)

\* the i-th movie set is overwritten by a later set of the same call: same
\* title and same year, the year not None
OverwrittenInBatch(movies, i) ==
    \E j \in (i + 1)..Len(movies) :
        /\ movies[j].title = movies[i].title
        /\ movies[j].year # Nil
        /\ movies[j].year = movies[i].year

\* C18 as stated: set_many raises exactly when a set fails; the movies set
\* before the failure each have a row carrying their fields; after a set_many
\* that did not fail, get(imdb_id) returns every movie of the list that has
\* an imdb_id.
C18_SetManyAllRetrievable ==
    CalledOp("set_many") =>
        /\ call.raised <=> call.args[2] > 0
        /\ \A i \in 1..Len(StoredBySetMany) :
              \E r \in store : r = NewRow(r.id, StoredBySetMany[i], call.t)
        /\ ~call.raised =>
              \A i \in 1..Len(call.args[1]) :
                  LET movie == call.args[1][i]
                  IN  movie.imdb_id # Nil =>
                        StoreGet(store, movie.imdb_id[1], MaxAge, call.t).ret = Some(movie)

\* C18: set_many raises exactly when a set fails and then has set the movies
\* before the failing one and none after it; every movie it set that no later
\* movie it set overwrote (same title, same year not None) has a row written
\* by this call carrying its fields, and get(imdb_id) returns it when no other
\* row has that imdb_id; a row the table held before is still there unless a
\* movie of the same title and year was set.
C18_SetManyLastWriterWins ==
    CalledOp("set_many") =>
        /\ call.raised <=> call.args[2] > 0
        /\ Cardinality(store \ call.before) <= Len(StoredBySetMany)
        /\ \A i \in 1..Len(StoredBySetMany) :
              LET movie == StoredBySetMany[i]
              IN  ~OverwrittenInBatch(StoredBySetMany, i) =>
                    /\ \E r \in store \ call.before : r = NewRow(r.id, movie, call.t)
                    /\ (movie.imdb_id # Nil
                        /\ Cardinality(RowsOfImdb(store, movie.imdb_id[1])) = 1)
                       => StoreGet(store, movie.imdb_id[1], MaxAge, call.t).ret = Some(movie)
        /\ \A r \in call.before \ store :
              \E i \in 1..Len(StoredBySetMany) :
                  /\ StoredBySetMany[i].title = r.title
                  /\ r.year # Nil
                  /\ StoredBySetMany[i].year = r.year

\* a set_many whose second set failed: it raised and the row of the first
\* movie is in the table
C18_Witness ==
    /\ CalledOp("set_many")
    /\ call.raised
    /\ call.args[2] = 2
    /\ store # call.before

-----------------------------------------------------------------------------
(* C19 *)

\* C19: match_by_imdb_id on a JustWatch entry without IMDb id, the Letterboxd
\* client answering None, returns a MatchedMovie with imdb_id None, the
\* JustWatch fields of the entry and no Letterboxd field; it does not return
\* None.
C19_PartialMatchWithoutId ==
    (/\ CalledOp("match_by_imdb_id")
     /\ call.args[1].imdb_id = Nil
     /\ call.args[3] = Nil)
    => /\ ~call.raised
       /\ call.ret # Nil
       /\ call.ret[1].imdb_id = Nil
       /\ call.ret[1].title = call.args[1].title
       /\ call.ret[1].year = call.args[1].year
       /\ call.ret[1].justwatch_id = Some(call.args[1].entry_id)
       /\ call.ret[1].letterboxd_slug = Nil
       /\ call.ret[1].letterboxd_rating = Nil
       /\ call.ret[1].genres = Nil
       /\ call.ret[1].letterboxd_url = Nil

-----------------------------------------------------------------------------
(* C20 *)

\* the IMDb id of the Letterboxd record answered to the i-th lookup, Nil
\* when there is no record or it has no id
AnsweredId(i) ==
    IF answers[i] # Nil /\ Truthy(answers[i][1].imdb_link)
    THEN SearchImdbId(answers[i][1].imdb_link[1]) ELSE Nil

\* the position in matched of the entity of the i-th lookup, when it matched
EntityIndex(i) ==
    Len(LookupsOfKind(SubSeq(lookups, 1, i), SubSeq(outcomes, 1, i), {"matched"}))

\* C20: in a sync cycle, a lookup for a tile that carries IMDb id X answered
\* by a Letterboxd record of another id Y (and processed without an
\* exception) ends in an entity of matched that
\* has imdb_id X, the tile's title, year and justwatch_id, and no Letterboxd
\* rating, genres or url.
C20_ConflictDowngrades ==
    \A i \in 1..Len(lookups) :
        (/\ Truthy(lookups[i].imdb_id)
         /\ AnsweredId(i) # Nil
         /\ AnsweredId(i) # lookups[i].imdb_id
         /\ outcomes[i] # "error")
        => /\ outcomes[i] = "matched"
           /\ LET m == matched[EntityIndex(i)]
              IN  /\ m.imdb_id = lookups[i].imdb_id
                  /\ m.title = lookups[i].title
                  /\ m.year = lookups[i].year
                  /\ m.justwatch_id = lookups[i].justwatch_id
                  /\ m.letterboxd_slug = Nil
                  /\ m.letterboxd_rating = Nil
                  /\ ~Truthy(m.genres)
                  /\ m.letterboxd_url = Nil

-----------------------------------------------------------------------------
(* C21 *)

\* C21: match_by_imdb_id, the Letterboxd client answering a film, the ids not
\* disagreeing (the entry has none, the film has none, or both are equal),
\* returns a MatchedMovie with the JustWatch fields of the entry, the
\* Letterboxd rating, genres and url of the film, and the id either side has.
C21_FullMatchOnAgreement ==
    (/\ CalledOp("match_by_imdb_id")
     /\ call.args[3] # Nil
     /\ \/ JWExtractImdbId(call.args[1]) = Nil
        \/ LBExtractImdbId(call.args[3][1]) = Nil
        \/ JWExtractImdbId(call.args[1]) = LBExtractImdbId(call.args[3][1]))
    => /\ ~call.raised
       /\ call.ret # Nil
       /\ call.ret[1].title = call.args[1].title
       /\ call.ret[1].year = call.args[1].year
       /\ call.ret[1].justwatch_id = Some(call.args[1].entry_id)
       /\ call.ret[1].streaming_platforms = Some(GetStreamingPlatforms(call.args[1]))
       /\ call.ret[1].imdb_id =
             IF JWExtractImdbId(call.args[1]) # Nil THEN JWExtractImdbId(call.args[1])
             ELSE LBExtractImdbId(call.args[3][1])
       /\ call.ret[1].letterboxd_rating = call.args[3][1].rating
       /\ call.ret[1].genres = Some(GetGenres(call.args[3][1]))
       /\ call.ret[1].letterboxd_url = call.args[3][1].url

-----------------------------------------------------------------------------
(* C22 *)

\* the MatchedMovie match_by_imdb_id gives an entry whose film Letterboxd does
\* not have
OnMiss(justwatch_movie, letterboxd_slug) ==
    MatchWithLookup(justwatch_movie, letterboxd_slug,
                    [exc |-> Some("not_found"), movie |-> Nil])

\* C22: when Movie(slug) raises on a failed request or on a page it cannot
\* parse, match_by_imdb_id raises nothing and returns what it returns for the
\* same entry when the film does not exist.
C22_RaisingLookupIsMiss ==
    (/\ CalledOp("match_by_imdb_id")
     /\ call.args[4].exc \in {Some("transport"), Some("parsing")})
    => /\ ~call.raised
       /\ ~OnMiss(call.args[1], call.args[2]).raised
       /\ call.ret = OnMiss(call.args[1], call.args[2]).ret

\* a failed request for an entry with an IMDb id ended in a partial match
C22_Witness ==
    /\ CalledOp("match_by_imdb_id")
    /\ call.args[4].exc = Some("transport")
    /\ JWExtractImdbId(call.args[1]) # Nil
    /\ ~call.raised
    /\ call.ret # Nil
    /\ call.ret[1].letterboxd_rating = Nil
    /\ call.ret[1].imdb_id = JWExtractImdbId(call.args[1])

-----------------------------------------------------------------------------
(* C23 *)

\* the rows the cycle in progress has written so far
WrittenRows == {r \in store : r \notin store0}

\* C23: every row that a sync cycle writes has a non-empty title and a
\* justwatch_id or an imdb_id.
C23_WrittenEntityIdentified ==
    phase \in {"Evicting", "Done"}
    => \A r \in WrittenRows :
          /\ r.title # << >>
          /\ r.justwatch_id # Nil \/ r.imdb_id # Nil

-----------------------------------------------------------------------------
(* C24 *)

\* C24: set(m) followed by get(m.imdb_id) returns a movie equal to m in every
\* field: the two lists with the same elements in the same order, an empty
\* list as an empty list, and None where m has None.
C24_RoundTrip ==
    CalledOp("set_get") =>
        /\ call.ret # Nil
        /\ call.ret[1] = call.args[1]

-----------------------------------------------------------------------------
(* C25 *)

-----------------------------------------------------------------------------
(* C26 *)

\* C26: until _store_matched_movies runs the table is the one the cycle
\* started with: while titles are fetched, compared and looked up, and after a
\* cycle that failed or was cancelled during the lookups; once rows have been
\* written every new title has had its lookup.
C26_NoWriteBeforePersist ==
    /\ phase \in {"Fetched", "Resolving", "Failed", "Cancelled"} => store = store0
    /\ phase \in {"Evicting", "Done"} => Len(lookups) = Len(changes.new)

\* a cycle was cancelled after a lookup had built a MatchedMovie
C26_Witness ==
    /\ phase = "Cancelled"
    /\ matched # << >>
    /\ store = store0

-----------------------------------------------------------------------------
(* C27 *)

\* C27: after every lookup that another lookup follows, whatever its outcome,
\* the loop has slept the rate-limit delay.
C27_PauseBetweenLookups ==
    \A i \in 1..(Len(lookups) - 1) : pauses[i] = RateLimitDelay

-----------------------------------------------------------------------------
(* C28 *)

\* the positions, in ascending order, of the lookups that ended in one of kinds
PositionsOf(kinds) ==
    SelectSeq([i \in 1..Len(outcomes) |-> i], LAMBDA i : outcomes[i] \in kinds)

\* C28: the lookups made so far are the first entries of new, one per entry
\* and in the order of new, which is the order of the scraped list; matched
\* and missing hold the entries of their lookups in that same order.
C28_SnapshotOrder ==
    phase \in {"Resolving", "Cancelled", "Evicting", "Done"} =>
        /\ changes.new = SelectSeq(current_titles, LAMBDA m : m \in Range(changes.new))
        /\ lookups = SubSeq(changes.new, 1, Len(lookups))
        /\ idx = Len(lookups) + 1
        /\ Len(matched) = Len(PositionsOf({"matched"}))
        /\ \A j \in 1..Len(matched) :
              /\ matched[j].title = lookups[PositionsOf({"matched"})[j]].title
              /\ matched[j].year = lookups[PositionsOf({"matched"})[j]].year
              /\ matched[j].justwatch_id = lookups[PositionsOf({"matched"})[j]].justwatch_id
        /\ missing = [j \in 1..Len(PositionsOf({"missing", "error"})) |->
                          lookups[PositionsOf({"missing", "error"})[j]]]

\* two different entries went missing and one was matched between them
C28_Witness ==
    /\ phase = "Done"
    /\ Len(lookups) >= 2
    /\ Len(missing) >= 1
    /\ Len(matched) >= 1
    /\ lookups[1] # lookups[2]

-----------------------------------------------------------------------------
(* C29 *)

\* a caller is inside sync_netflix_catalog
Active(p) == tasks[p].pc \in {"Fetching", "Resolving"}

\* C29: the cycle _run_sync started and the cycle run_sync_now started are
\* never both inside sync_netflix_catalog.
C29_OneCycleAtATime == ~(Active("cron") /\ Active("manual"))

-----------------------------------------------------------------------------
(* C30 *)

\* C30: the log file holds its earlier lines and one more line for every
\* entry a cycle has put in missing, and get_sync_status reports the number of
\* lines this manager has appended.
C30_StatusCountsOwnLines ==
    /\ missing_log = log0 + Appended
    /\ CalledOp("get_sync_status") => call.ret = call.args[1]

-----------------------------------------------------------------------------
(* C31 *)

\* C31: the statistics of a completed cycle have new + retained = total and
\* matched + missing = new, total being the length of the scraped list; every
\* scraped entry is in exactly one of new and retained, and every new entry
\* was appended to exactly one of matched and missing.
C31_StatsAddUp ==
    phase = "Done" =>
        /\ stats # Nil
        /\ stats[1].total = Len(current_titles)
        /\ stats[1].new + stats[1].retained = stats[1].total
        /\ stats[1].matched + stats[1].missing = stats[1].new
        /\ \A i \in 1..Len(current_titles) :
              (current_titles[i] \in Range(changes.new))
                 # (current_titles[i] \in Range(changes.retained))
        /\ stats[1].new = Len(changes.new)
        /\ stats[1].matched = Len(matched)
        /\ stats[1].missing = Len(missing)
        /\ \A i \in 1..Len(lookups) :
              (i \in Range(PositionsOf({"matched"})))
                 # (i \in Range(PositionsOf({"missing", "error"})))

\* a cycle completed with two new titles of one key, one matched, one missing
C31_Witness ==
    /\ phase = "Done"
    /\ stats # Nil
    /\ stats[1].new = 2
    /\ stats[1].matched = 1
    /\ stats[1].missing = 1
    /\ TitleKey(changes.new[1]) = TitleKey(changes.new[2])

-----------------------------------------------------------------------------
(* C32 *)

\* C32: the second of two cycles run back to back on the same listing, with
\* the same answers of Letterboxd, returns statistics with new = 0, removed =
\* 0 and retained = total, has made no lookup, has logged no missing title and
\* has left the table as it found it.
C32_SecondCycleIsNoOp ==
    (cycles = 2 /\ phase \in {"Done", "Failed"}) =>
        /\ phase = "Done"
        /\ stats # Nil
        /\ stats[1].new = 0
        /\ stats[1].removed = 0
        /\ stats[1].retained = stats[1].total
        /\ lookups = << >>
        /\ logged = << >>
        /\ store = store0
-----------------------------------------------------------------------------
(* C33 *)

-----------------------------------------------------------------------------
(* C34 *)

\* the rows of a table with last_accessed left out of the comparison
Untouched(st) == {[r EXCEPT !.last_accessed = 0] : r \in st}

\* the calls that only read
ReadOps == {"get", "get_by_title", "get_platform_catalog", "get_stats"}

\* C34: after get, get_by_title, get_platform_catalog or get_stats the table
\* holds the rows it held before the call, each with every column but
\* last_accessed as it was, cached_at included; and after any call but set,
\* set_many and set-then-get, a row that is still in the table has the
\* cached_at it had before.
C34_ReadsKeepRows ==
    /\ (call.op \in ReadOps /\ phase = "Idle") =>
          /\ Untouched(store) = Untouched(call.before)
          /\ Cardinality(store) = Cardinality(call.before)
    /\ (call.op \in ReadOps \cup {"clear_expired", "delete"} /\ phase = "Idle") =>
          \A r \in store : \E q \in call.before : q.id = r.id /\ q.cached_at = r.cached_at

\* a get at a later clock reading than the set of the row it returned: the
\* row's last_accessed moved
C34_Witness ==
    /\ CalledOp("get")
    /\ call.ret # Nil
    /\ store # call.before
    /\ \E r \in store : r.last_accessed = call.t /\ r.cached_at < call.t
-----------------------------------------------------------------------------
(* C35 *)

\* C35: a get_by_title(t) that returned a movie returned one whose title equals
\* t after trim + lowercase of both, read from a row no other row of such a
\* title is cached later than; a row whose title only contains t is never
\* returned.
C35_TitleLookupIsExact ==
    (CalledOp("get_by_title") /\ call.ret # Nil) =>
        /\ NormalizeTitle(call.ret[1].title) = NormalizeTitle(call.args[1])
        /\ \E r \in call.before :
              /\ RowToMovie(r) = call.ret[1]
              /\ \A q \in call.before :
                    NormalizeTitle(q.title) = NormalizeTitle(call.args[1])
                    => q.cached_at <= r.cached_at
-----------------------------------------------------------------------------
(* C36 *)

\* C36: the key of a record is its title after trim + lowercase, followed by
\* "|" and the year when the record has a year; and a record with the same key
\* has the same title after trim + lowercase and the same year, or like it no
\* year.
C36_KeyIsInjective ==
    CalledOp("_title_key") =>
        LET movie == call.args[1]
        IN  /\ call.ret = IF movie.year # Nil
                          THEN NormalizeTitle(movie.title) \o <<"|">> \o Str(movie.year[1])
                          ELSE NormalizeTitle(movie.title)
            /\ \A other \in KeyMovies :
                  TitleKey(other) = call.ret
                  => /\ NormalizeTitle(other.title) = NormalizeTitle(movie.title)
                     /\ other.year = movie.year

====
